---- MODULE Spec2Model ----
(***************************************************************************)
(* A model of the zinc transpiler core (crates/zinc_core/src/lib.rs).      *)
(*                                                                         *)
(* Text is modelled as TLA+ strings, handled character by character with   *)
(* Len, SubSeq, Head, Tail and \o.  A parse tree node is a record          *)
(*   [rule |-> <pest rule name>, str |-> <matched text of a leaf>,         *)
(*    children |-> <sequence of nodes>]                                    *)
(* which is what the lowering code reads from a pest Pair: as_rule(),      *)
(* as_str() and into_inner().                                              *)
(***************************************************************************)
EXTENDS Integers, Sequences, FiniteSets, TLC

VARIABLES
    \* one call of a transpiler entry point
    input, pc, result, text,
    \* the editor server: Backend.documents, the running handlers, and what
    \* the client was last sent for each document
    documents, handlers, published,
    \* one run of the command line tool
    cli,
    \* the runtime leak tracker: LIVE_OBJECTS, the completed calls, stderr
    live, allocs, frees, stderr

core_vars == <<input, pc, result, text>>
lsp_vars == <<documents, handlers, published>>
leak_vars == <<live, allocs, frees, stderr>>

vars == <<input, pc, result, text, documents, handlers, published, cli,
          live, allocs, frees, stderr>>

(***************************************************************************)
(* Text helpers (Rust std String operations used by the lowering code).    *)
(***************************************************************************)

\* str::is_empty
is_empty(s) == Len(s) = 0

\* the k-th character of s as a one-character string
CharAt(s, k) == SubSeq(s, k, k)

\* str::starts_with
starts_with(s, p) == Len(s) >= Len(p) /\ SubSeq(s, 1, Len(p)) = p

RECURSIVE replace(_, _, _)
\* str::replace: every non-overlapping match of from, left to right
replace(s, from, to) ==
    IF Len(s) < Len(from) THEN s
    ELSE IF starts_with(s, from)
         THEN to \o replace(SubSeq(s, Len(from) + 1, Len(s)), from, to)
         ELSE Head(s) \o replace(Tail(s), from, to)

RECURSIVE join(_, _)
\* [String]::join
join(items, sep) ==
    IF Len(items) = 0 THEN ""
    ELSE IF Len(items) = 1 THEN items[1]
    ELSE items[1] \o sep \o join(Tail(items), sep)

\* Vec::insert(0, x)
insert0(items, x) == <<x>> \o items

AsciiAlpha ==
    {"a","b","c","d","e","f","g","h","i","j","k","l","m","n","o","p","q","r",
     "s","t","u","v","w","x","y","z",
     "A","B","C","D","E","F","G","H","I","J","K","L","M","N","O","P","Q","R",
     "S","T","U","V","W","X","Y","Z"}

AsciiDigit == {"0","1","2","3","4","5","6","7","8","9"}

\* is_simple_identifier with the first-character test joined by && instead
\* of ||: no character is both a letter and an underscore
is_simple_identifier_and(value) ==
    /\ Len(value) > 0
    /\ (Head(value) \in AsciiAlpha /\ Head(value) = "_")
    /\ \A k \in 2..Len(value) :
          CharAt(value, k) \in AsciiAlpha \cup AsciiDigit \cup {"_"}

is_simple_identifier(value) ==
    /\ Len(value) > 0
    /\ (Head(value) \in AsciiAlpha \/ Head(value) = "_")
    /\ \A k \in 2..Len(value) :
          CharAt(value, k) \in AsciiAlpha \cup AsciiDigit \cup {"_"}

(***************************************************************************)
(* Parse tree nodes.                                                       *)
(***************************************************************************)

Node(rule, str, children) == [rule |-> rule, str |-> str, children |-> children]

\* Pair::into_inner().next() and the rest of the iterator
HasChild(n, k) == Len(n.children) >= k
Child(n, k) == n.children[k]
ChildrenFrom(n, k) == SubSeq(n.children, k, Len(n.children))

(***************************************************************************)
(* Expression lowering.                                                    *)
(***************************************************************************)

transpile_string(raw) ==
    IF Len(raw) < 2 THEN ""
    ELSE LET inner == SubSeq(raw, 2, Len(raw) - 1)
             unescaped == replace(replace(inner, "\\\"", "\""), "\\\\", "\\")
         IN  "r#\"" \o unescaped \o "\"#"

transpile_call_with_args(name, args) ==
    LET args_joined == join(args, ", ")
    IN  CASE name = "print" -> "println!(\"{:?}\", " \o args_joined \o ")"
          [] name = "leak"  -> "zinc_std::leak()"
          [] OTHER          -> name \o "(" \o args_joined \o ")"

\* the spider.get branch, with the profile argument always None
spider_get_no_profile(args) ==
    IF Len(args) >= 1 THEN "zinc_std::spider::get(" \o args[1] \o ", None)"
    ELSE ""

\* the spider.get branch of transpile_member_call_with_args
spider_get(args) ==
    IF Len(args) = 1 THEN "zinc_std::spider::get(" \o args[1] \o ", None)"
    ELSE IF Len(args) >= 2
         THEN "zinc_std::spider::get(" \o args[1] \o ", Some(" \o args[2] \o "))"
         ELSE ""

transpile_member_call_with_args(obj, method, args) ==
    LET args_joined == join(args, ", ")
        n == Len(args)
    IN  CASE obj = "db" /\ method = "query" ->
               IF n = 2
               THEN "zinc_std::db::query(" \o args[1] \o ", " \o args[2] \o ")"
               ELSE ""
          [] obj = "fs" /\ method = "read" ->
               IF n = 1 THEN "zinc_std::fs::read(" \o args[1] \o ")" ELSE ""
          [] obj = "fs" /\ method = "write" ->
               IF n = 2
               THEN "zinc_std::fs::write(" \o args[1] \o ", " \o args[2] \o ")"
               ELSE ""
          [] obj = "html" /\ method = "select" ->
               IF n = 2
               THEN "zinc_std::html::select_text(" \o args[1] \o ", " \o args[2] \o ")"
               ELSE ""
          [] obj = "json" /\ method = "parse" ->
               IF n = 1 THEN "zinc_std::json::parse(" \o args[1] \o ")" ELSE ""
          [] obj = "json" /\ method = "get" ->
               IF n = 2
               THEN "zinc_std::json::get(&" \o args[1] \o ", " \o args[2] \o ")"
               ELSE ""
          [] obj = "json" /\ method = "at" ->
               IF n = 2
               THEN "zinc_std::json::at(&" \o args[1] \o ", " \o args[2] \o ")"
               ELSE ""
          [] obj = "json" /\ method = "to_string" ->
               IF n = 1 THEN "zinc_std::json::to_string(" \o args[1] \o ")" ELSE ""
          [] obj = "spider" /\ method = "get_proxy" ->
               IF n = 3
               THEN "zinc_std::spider::get_with_proxy(" \o args[1] \o ", "
                        \o args[2] \o ", " \o args[3] \o ")"
               ELSE ""
          [] obj = "py" /\ method = "eval" ->
               "zinc_std::python::eval(" \o args_joined \o ")"
          [] obj = "spider" /\ method = "get" -> spider_get(args)
          [] OTHER -> obj \o "." \o method \o "(" \o args_joined \o ")"

unwrap_suffix(pair) ==
    IF pair.rule = "suffix" THEN Child(pair, 1) ELSE pair

RECURSIVE transpile_expr(_)
RECURSIVE expr_chain(_, _)
RECURSIVE expr_chain_right(_, _)
RECURSIVE transpile_arg_list_from(_, _)
RECURSIVE array_items_from(_, _)
RECURSIVE transpile_pipeline(_, _)
RECURSIVE transpile_term(_)
RECURSIVE transpile_atom(_)
RECURSIVE transpile_suffix(_, _)
RECURSIVE apply_suffixes(_, _)

\* the loop of transpile_arg_list over the children from position k
transpile_arg_list_from(pair, k) ==
    IF ~HasChild(pair, k) THEN <<>>
    ELSE LET value == transpile_expr(Child(pair, k))
         IN  (IF ~is_empty(value) THEN <<value>> ELSE <<>>)
                 \o transpile_arg_list_from(pair, k + 1)

transpile_arg_list(pair) == transpile_arg_list_from(pair, 1)

parse_call(pair) ==
    [name |-> IF HasChild(pair, 1) THEN Child(pair, 1).str ELSE "",
     args |-> IF HasChild(pair, 2) THEN transpile_arg_list(Child(pair, 2)) ELSE <<>>]

transpile_call(pair) ==
    LET c == parse_call(pair) IN transpile_call_with_args(c.name, c.args)

\* the loop of transpile_array over the elements from position k
array_items_from(elements, k) ==
    IF ~HasChild(elements, k) THEN <<>>
    ELSE LET e == Child(elements, k)
             value == IF e.rule = "expr" THEN transpile_expr(e) ELSE ""
         IN  (IF ~is_empty(value) THEN <<value>> ELSE <<>>)
                 \o array_items_from(elements, k + 1)

transpile_array(pair) ==
    LET items == IF HasChild(pair, 1) THEN array_items_from(Child(pair, 1), 1)
                 ELSE <<>>
    IN  "vec![" \o join(items, ", ") \o "]"

\* "for suffix in inner { out = transpile_suffix(out, suffix) }"
apply_suffixes(current, suffixes) ==
    IF Len(suffixes) = 0 THEN current
    ELSE apply_suffixes(transpile_suffix(current, Head(suffixes)), Tail(suffixes))

transpile_suffix(current, suffix0) ==
    LET suffix == unwrap_suffix(suffix0)
    IN  CASE suffix.rule = "indexing_suffix" ->
               LET index_expr == IF HasChild(suffix, 1)
                                 THEN transpile_expr(Child(suffix, 1)) ELSE ""
               IN  IF is_empty(current) \/ is_empty(index_expr) THEN ""
                   ELSE current \o "[" \o index_expr \o " as usize]"
          [] suffix.rule = "member_suffix" ->
               LET method == IF HasChild(suffix, 1) THEN Child(suffix, 1).str ELSE ""
                   args == IF HasChild(suffix, 2)
                           THEN transpile_arg_list(Child(suffix, 2)) ELSE <<>>
               IN  IF is_empty(method) THEN ""
                   ELSE IF is_simple_identifier(current)
                        THEN transpile_member_call_with_args(current, method, args)
                        ELSE current \o "." \o method \o "(" \o join(args, ", ") \o ")"
          [] OTHER -> current

transpile_atom(pair) ==
    CASE pair.rule = "atom" ->
           IF HasChild(pair, 1) THEN transpile_atom(Child(pair, 1)) ELSE ""
      [] pair.rule = "array" -> transpile_array(pair)
      [] pair.rule = "call" -> transpile_call(pair)
      [] pair.rule = "string" -> transpile_string(pair.str)
      [] pair.rule = "number" -> pair.str
      [] pair.rule = "identifier" -> pair.str
      [] pair.rule = "expr" -> transpile_expr(pair)
      [] pair.rule = "term" -> transpile_term(pair)
      [] OTHER -> ""

transpile_term(pair) ==
    IF ~HasChild(pair, 1) THEN ""
    ELSE apply_suffixes(transpile_atom(Child(pair, 1)), ChildrenFrom(pair, 2))

transpile_pipeline(lhs, rhs_pair) ==
    IF rhs_pair.rule # "term"
    THEN transpile_expr(rhs_pair) \o "(" \o lhs \o ")"
    ELSE IF ~HasChild(rhs_pair, 1) THEN ""
    ELSE LET first == Child(rhs_pair, 1)
             inner == ChildrenFrom(rhs_pair, 2)
         IN  IF first.rule = "atom" /\ ~HasChild(first, 1) THEN ""
             ELSE LET atom == IF first.rule = "atom" THEN Child(first, 1) ELSE first
                  IN  CASE atom.rule = "call" ->
                             LET c == parse_call(atom)
                             IN  apply_suffixes(
                                     transpile_call_with_args(c.name, insert0(c.args, lhs)),
                                     inner)
                        [] atom.rule = "identifier" ->
                             LET ident == atom.str
                             IN  IF Len(inner) = 0
                                 THEN transpile_call_with_args(ident, <<lhs>>)
                                 ELSE LET first_suffix == unwrap_suffix(Head(inner))
                                      IN  IF first_suffix.rule = "member_suffix"
                                          THEN LET method ==
                                                     IF HasChild(first_suffix, 1)
                                                     THEN Child(first_suffix, 1).str
                                                     ELSE ""
                                                   args ==
                                                     IF HasChild(first_suffix, 2)
                                                     THEN transpile_arg_list(Child(first_suffix, 2))
                                                     ELSE <<>>
                                               IN  apply_suffixes(
                                                       transpile_member_call_with_args(
                                                           ident, method, insert0(args, lhs)),
                                                       Tail(inner))
                                          ELSE apply_suffixes(
                                                   transpile_suffix(ident, first_suffix),
                                                   Tail(inner))
                                                 \o "(" \o lhs \o ")"
                        [] OTHER ->
                             apply_suffixes(transpile_atom(atom), inner)
                                 \o "(" \o lhs \o ")"

\* the loop of transpile_expr grouping to the right: the operand of + and of
\* a comparison is everything that follows the operator
expr_chain_right(current, rest) ==
    IF Len(rest) < 2 THEN current
    ELSE LET op == rest[1].str
             rhs_pair == rest[2]
             after == SubSeq(rest, 3, Len(rest))
         IN  CASE op = "|>" ->
                    expr_chain_right(transpile_pipeline(current, rhs_pair), after)
               [] op = "+" ->
                    "format!(\"{}{}\", " \o current \o ", "
                        \o expr_chain_right(transpile_expr(rhs_pair), after) \o ")"
               [] op \in {"==", "!=", ">", "<", ">=", "<="} ->
                    "(" \o current \o " " \o op \o " "
                        \o expr_chain_right(transpile_expr(rhs_pair), after) \o ")"
               [] OTHER -> expr_chain_right(current, after)

\* the while loop of transpile_expr: children k (operator) and k+1 (operand)
expr_chain(current, rest) ==
    IF Len(rest) < 2 THEN current
    ELSE LET op == rest[1].str
             rhs_pair == rest[2]
             next ==
               CASE op = "|>" -> transpile_pipeline(current, rhs_pair)
                 [] op = "+" ->
                      "format!(\"{}{}\", " \o current \o ", "
                          \o transpile_expr(rhs_pair) \o ")"
                 [] op \in {"==", "!=", ">", "<", ">=", "<="} ->
                      "(" \o current \o " " \o op \o " "
                          \o transpile_expr(rhs_pair) \o ")"
                 [] OTHER -> current
         IN  expr_chain(next, SubSeq(rest, 3, Len(rest)))

transpile_expr(pair) ==
    CASE pair.rule = "expr" ->
           IF ~HasChild(pair, 1) THEN ""
           ELSE expr_chain(transpile_expr(Child(pair, 1)), ChildrenFrom(pair, 2))
      [] pair.rule = "term" -> transpile_term(pair)
      [] pair.rule = "call" -> transpile_call(pair)
      [] pair.rule = "array" -> transpile_array(pair)
      [] pair.rule = "string" -> transpile_string(pair.str)
      [] pair.rule = "number" -> pair.str
      [] pair.rule = "identifier" -> pair.str
      [] OTHER -> ""

(***************************************************************************)
(* Statement lowering.                                                     *)
(***************************************************************************)

RECURSIVE transpile_statement(_)
RECURSIVE transpile_block_from(_, _)
RECURSIVE transpile_block_reversed(_, _)

\* the loop of transpile_block pushing each statement in front of the output
transpile_block_reversed(pair, k) ==
    IF ~HasChild(pair, k) THEN ""
    ELSE transpile_block_reversed(pair, k + 1)
             \o (IF Child(pair, k).rule = "statement"
                 THEN transpile_statement(Child(pair, k)) ELSE "")

\* the loop of transpile_block over the children from position k
transpile_block_from(pair, k) ==
    IF ~HasChild(pair, k) THEN ""
    ELSE (IF Child(pair, k).rule = "statement"
          THEN transpile_statement(Child(pair, k)) ELSE "")
             \o transpile_block_from(pair, k + 1)

transpile_block(pair) == transpile_block_from(pair, 1)

transpile_fn_def(pair) ==
    LET blocks == {k \in 1..Len(pair.children) : Child(pair, k).rule = "block"}
    IN  IF blocks = {} THEN ""
        ELSE transpile_block(Child(pair, CHOOSE k \in blocks : \A j \in blocks : k <= j))

transpile_let_stmt(pair) ==
    LET name == IF HasChild(pair, 1) THEN Child(pair, 1).str ELSE ""
        expr == IF HasChild(pair, 2) THEN transpile_expr(Child(pair, 2)) ELSE ""
    IN  IF is_empty(name) \/ is_empty(expr) THEN ""
        ELSE "let " \o name \o " = " \o expr \o ";"

transpile_expr_stmt(pair) ==
    IF HasChild(pair, 1)
    THEN LET expr_out == transpile_expr(Child(pair, 1))
         IN  IF is_empty(expr_out) THEN "" ELSE expr_out \o ";"
    ELSE ""

transpile_if_stmt(pair) ==
    LET condition == IF HasChild(pair, 1) THEN transpile_expr(Child(pair, 1)) ELSE ""
        then_block == IF HasChild(pair, 2) THEN transpile_block(Child(pair, 2)) ELSE ""
        else_block == IF HasChild(pair, 3) THEN transpile_block(Child(pair, 3)) ELSE ""
    IN  IF is_empty(condition) \/ is_empty(then_block) THEN ""
        ELSE IF is_empty(else_block)
             THEN "if " \o condition \o " {\n" \o then_block \o "}"
             ELSE "if " \o condition \o " {\n" \o then_block \o "} else {\n"
                      \o else_block \o "}"

transpile_loop_stmt(pair) ==
    LET body == IF HasChild(pair, 1) THEN transpile_block(Child(pair, 1)) ELSE ""
    IN  IF is_empty(body) THEN "" ELSE "loop {\n" \o body \o "}"

transpile_break_stmt(pair) == "break;"

transpile_statement(pair) ==
    IF HasChild(pair, 1)
    THEN LET inner_pair == Child(pair, 1)
         IN  CASE inner_pair.rule = "expr_stmt" -> transpile_expr_stmt(inner_pair)
               [] inner_pair.rule = "let_stmt" -> transpile_let_stmt(inner_pair)
               [] inner_pair.rule = "if_stmt" -> transpile_if_stmt(inner_pair)
               [] inner_pair.rule = "loop_stmt" -> transpile_loop_stmt(inner_pair)
               [] inner_pair.rule = "break_stmt" -> transpile_break_stmt(inner_pair)
               [] inner_pair.rule = "fn_def" -> transpile_fn_def(inner_pair)
               [] OTHER -> ""
    ELSE ""

(***************************************************************************)
(* The entry point.                                                        *)
(***************************************************************************)

\* struct ZincError
ZincError(line, column, message, suggestion) ==
    [line |-> line, column |-> column, message |-> message, suggestion |-> suggestion]

NoError == ZincError(0, 0, "", "")

Ok(output) == [ok |-> TRUE, output |-> output, err |-> NoError]
Err(e) == [ok |-> FALSE, output |-> "", err |-> e]

\* the diagnostic built at the two "no statements" exits
EmptyProgramError ==
    ZincError(0, 0, "No statements found", "Add at least one statement.")

\* the pest failure of an input turned into a ZincError
zinc_error_from_pest(err) ==
    ZincError(err.line, err.column, err.message,
              "Check syntax near the reported location.")

RECURSIVE program_output_from(_, _)
\* the loop of transpile_with_error over the children of program
program_output_from(program, k) ==
    IF ~HasChild(program, k) THEN ""
    ELSE (IF Child(program, k).rule = "statement"
          THEN transpile_statement(Child(program, k)) ELSE "")
             \o program_output_from(program, k + 1)

\* saw_statement set by any child of program, statement or not
saw_any_child(program) == Len(program.children) > 0

\* the flag saw_statement after the loop of transpile_with_error
saw_statement(program) ==
    \E k \in 1..Len(program.children) : Child(program, k).rule = "statement"

\* the exit that also fails a program whose output is empty
finish_rejecting_empty_output(saw, output) ==
    IF ~saw \/ is_empty(output) THEN Err(EmptyProgramError) ELSE Ok(output)

\* the exit of transpile_with_error after the loop
finish(saw, output) ==
    IF ~saw THEN Err(EmptyProgramError) ELSE Ok(output)

\* parsed: the outcome of ZincParser::parse(Rule::program, src)
transpile_with_error(parsed) ==
    IF ~parsed.ok THEN Err(zinc_error_from_pest(parsed.err))
    ELSE IF Len(parsed.pairs) = 0 THEN Err(EmptyProgramError)
    ELSE LET program == parsed.pairs[1]
         IN  finish(saw_statement(program), program_output_from(program, 1))

\* pub fn transpile
transpile(parsed) ==
    LET r == transpile_with_error(parsed)
    IN  IF r.ok THEN r.output ELSE ""

(***************************************************************************)
(* Parse trees, built the way the grammar's rules nest: program >          *)
(* statement > expr_stmt | let_stmt | if_stmt | loop_stmt | break_stmt |   *)
(* fn_def; expr > term (operator term)*; term > atom suffix*; suffix >     *)
(* member_suffix | indexing_suffix; call and member_suffix > identifier    *)
(* arg_list?.                                                              *)
(***************************************************************************)

Ident(s) == Node("identifier", s, <<>>)
Num(s) == Node("number", s, <<>>)
\* a string literal with the given text between its quote delimiters
Str(content) == Node("string", "\"" \o content \o "\"", <<>>)
Op(s) == Node("op", s, <<>>)
Atom(x) == Node("atom", "", <<x>>)
ArgList(exprs) == Node("arg_list", "", exprs)
OptArgList(exprs) == IF Len(exprs) = 0 THEN <<>> ELSE <<ArgList(exprs)>>
Call(name, exprs) == Node("call", "", <<Ident(name)>> \o OptArgList(exprs))
Member(method, exprs) ==
    Node("suffix", "", <<Node("member_suffix", "", <<Ident(method)>> \o OptArgList(exprs))>>)
Index(expr) == Node("suffix", "", <<Node("indexing_suffix", "", <<expr>>)>>)
Term(x, suffixes) == Node("term", "", <<Atom(x)>> \o suffixes)
\* an expr node from its flat child list: term, operator, term, ...
Expr(chain) == Node("expr", "", chain)
\* the expr that is one term
E1(x) == Expr(<<Term(x, <<>>)>>)
Array(exprs) ==
    Node("array", "", IF Len(exprs) = 0 THEN <<>> ELSE <<Node("elements", "", exprs)>>)
Block(stmts) == Node("block", "", stmts)
Statement(x) == Node("statement", "", <<x>>)
ExprStmt(expr) == Statement(Node("expr_stmt", "", <<expr>>))
LetStmt(name, expr) == Statement(Node("let_stmt", "", <<Ident(name), expr>>))
IfStmt(cond, then_stmts) == Statement(Node("if_stmt", "", <<cond, Block(then_stmts)>>))
IfElseStmt(cond, then_stmts, else_stmts) ==
    Statement(Node("if_stmt", "", <<cond, Block(then_stmts), Block(else_stmts)>>))
LoopStmt(stmts) == Statement(Node("loop_stmt", "", <<Block(stmts)>>))
BreakStmt == Statement(Node("break_stmt", "", <<>>))
FnDef(name, stmts) == Statement(Node("fn_def", "", <<Ident(name), Block(stmts)>>))
Program(stmts) == Node("program", "", stmts \o <<Node("EOI", "", <<>>)>>)

\* the two outcomes of ZincParser::parse
Parsed(program) == [ok |-> TRUE, pairs |-> <<program>>, err |-> [line |-> 0, column |-> 0, message |-> ""]]
ParseFailure(line, column) ==
    [ok |-> FALSE, pairs |-> <<>>,
     err |-> [line |-> line, column |-> column, message |-> "expected statement"]]

\* the program that is one expression statement
P1(expr) == Parsed(Program(<<ExprStmt(expr)>>))

(***************************************************************************)
(* Bounded input families.                                                 *)
(***************************************************************************)

\* longest explicit argument list of a call in the inputs
MaxArgs == 2
\* longest string literal content, in units (a character or an escape)
MaxUnits == 3
\* deepest nesting of if / loop statements in the inputs
MaxDepth == 3
\* largest line and column of a reported syntax error
MaxPos == 2
\* most operators in a binary chain of the inputs
MaxOps == 2

\* all sequences over S of length 0..n
RECURSIVE SeqsUpTo(_, _)
SeqsUpTo(S, n) ==
    IF n = 0 THEN {<<>>}
    ELSE LET shorter == SeqsUpTo(S, n - 1)
         IN  shorter \cup {Append(q, x) : q \in {r \in shorter : Len(r) = n - 1}, x \in S}

\* db.query(c): a recognized pair with the wrong arity, which lowers to ""
EmptyTerm == Term(Ident("db"), <<Member("query", <<E1(Ident("c"))>>)>>)
EmptyExpr == Expr(<<EmptyTerm>>)

\* argument expressions: an identifier, a string literal, one that lowers to ""
ArgExprs == {E1(Ident("b")), E1(Str("x")), EmptyExpr}
ArgLists == SeqsUpTo(ArgExprs, MaxArgs)

\* left-hand sides of a pipeline, as the flat child list of their expr
LhsChains ==
    {<<Term(Ident("a"), <<>>)>>,
     <<Term(Str("s"), <<>>)>>,
     <<EmptyTerm>>,
     <<Term(Ident("a"), <<>>), Op("+"), Term(Ident("b"), <<>>)>>,
     <<Term(Ident("a"), <<>>), Op("=="), Term(Num("1"), <<>>)>>,
     <<Term(Ident("a"), <<>>), Op("|>"), Term(Ident("g"), <<>>)>>}

CallNames == {"f", "print", "leak"}

\* a |> f(b...)      a |> f      f(a, b...)
PipeCall(ac, f, bs) == Expr(ac \o <<Op("|>"), Term(Call(f, bs), <<>>)>>)
PipeIdent(ac, f) == Expr(ac \o <<Op("|>"), Term(Ident(f), <<>>)>>)
DirectCall(f, exprs) == E1(Call(f, exprs))

\* the recognized (receiver, method) pairs and one pair outside the table
MemberPairs ==
    {<<"db", "query">>, <<"fs", "read">>, <<"fs", "write">>, <<"html", "select">>,
     <<"json", "parse">>, <<"json", "get">>, <<"json", "at">>, <<"json", "to_string">>,
     <<"spider", "get">>, <<"spider", "get_proxy">>, <<"py", "eval">>, <<"o", "m">>}

\* suffixes that follow the member call
MoreSuffixes == {<<>>, <<Member("n", <<>>)>>, <<Index(E1(Num("0")))>>}

\* v |> obj.method(x...)<more>      obj.method(v, x...)<more>
PipeMember(vc, obj, method, xs, more) ==
    Expr(vc \o <<Op("|>"), Term(Ident(obj), <<Member(method, xs)>> \o more)>>)
DirectMember(obj, method, exprs, more) ==
    Expr(<<Term(Ident(obj), <<Member(method, exprs)>> \o more)>>)

\* string literal contents: plain characters and backslash escapes
Units == {"a", "#", "\\\"", "\\\\", "\\n"}
RECURSIVE Contents(_)
Contents(n) ==
    IF n = 0 THEN {""}
    ELSE Contents(n - 1) \cup {c \o u : c \in Contents(n - 1), u \in Units}

\* identifier tokens used as url and profile
IdentNames == {"url", "profile", "u_2", "_p"}

\* one step of a binary chain: an operator and its right-hand term; the
\* right-hand side of |> is a bare identifier or a call with one argument
ChainSteps ==
    {<<Op(o), Term(x, <<>>)>> : o \in {"+", "==", "<"}, x \in {Ident("b"), Num("1")}}
        \cup {<<Op("|>"), Term(Ident("g"), <<>>)>>,
              <<Op("|>"), Term(Call("f", <<E1(Ident("b"))>>), <<>>)>>}

RECURSIVE ChainsOf(_)
\* the flat child lists of the chains with exactly n operators
ChainsOf(n) ==
    IF n = 0 THEN {<<Term(x, <<>>)>> : x \in {Ident("a"), Num("2")}}
    ELSE {c \o st : c \in ChainsOf(n - 1), st \in ChainSteps}

Chains == UNION {ChainsOf(n) : n \in 0..MaxOps}

\* expressions with a sub-expression that lowers to empty text: an operand of
\* +, of a comparison, a pipeline left-hand side, a call argument
EmptyOperandExprs ==
    {Expr(<<Term(Ident("a"), <<>>), Op(o), EmptyTerm>>) : o \in {"+", "==", "<"}}
        \cup {Expr(<<EmptyTerm, Op(o), Term(Ident("a"), <<>>)>>) : o \in {"+", "==", "<"}}
        \cup {PipeCall(<<EmptyTerm>>, "f", <<E1(Ident("b"))>>),
              PipeIdent(<<EmptyTerm>>, "f"),
              DirectCall("f", <<EmptyExpr, E1(Ident("b"))>>),
              DirectCall("f", <<E1(Ident("b")), EmptyExpr>>),
              DirectCall("f", <<EmptyExpr>>)}

\* atoms and suffix chains in front of a member suffix
BaseAtoms ==
    {Ident("db"), Ident("x"), Ident("_d2"), Num("1"), Str("db"), Call("db", <<>>),
     E1(Ident("db"))}
BaseSuffixes == {<<>>, <<Index(E1(Num("0")))>>, <<Member("m", <<>>)>>}

\* the argument lists of the member suffix: one and two identifiers
SuffixArgs == {<<E1(Ident("a"))>>, <<E1(Ident("a")), E1(Ident("b"))>>}

\* <atom><suffixes>.query(args)
SuffixChain(x, pre, xs) == Expr(<<Term(x, pre \o <<Member("query", xs)>>)>>)

\* statements without a block
LeafStmts == {BreakStmt, ExprStmt(E1(Ident("a"))), ExprStmt(EmptyExpr)}

\* a block: at most one statement before and after the nested one
Around == {<<<<>>, <<>>>>,
           <<<<ExprStmt(E1(Ident("a")))>>, <<>>>>,
           <<<<>>, <<BreakStmt>>>>}

\* if / loop statements nested d deep around a leaf
RECURSIVE Nested(_)
Nested(d) ==
    IF d = 0 THEN LeafStmts
    ELSE LET bodies == {w[1] \o <<n>> \o w[2] : w \in Around, n \in Nested(d - 1)}
         IN  {LoopStmt(b) : b \in bodies}
                 \cup {IfStmt(E1(Ident("c")), b) : b \in bodies}

NestedStmts == UNION {Nested(d) : d \in 0..MaxDepth}

ExprInputs ==
    {PipeCall(ac, f, bs) : ac \in LhsChains, f \in CallNames, bs \in ArgLists}
        \cup {PipeIdent(ac, f) : ac \in LhsChains, f \in CallNames}
        \cup {DirectCall(f, bs) : f \in CallNames, bs \in ArgLists}
        \cup {PipeMember(vc, p[1], p[2], xs, more) :
                 vc \in LhsChains, p \in MemberPairs, xs \in ArgLists, more \in MoreSuffixes}
        \cup {DirectMember(p[1], p[2], xs, <<>>) :
                 p \in MemberPairs, xs \in SeqsUpTo(ArgExprs, MaxArgs + 1)}
        \cup {E1(Str(c)) : c \in Contents(MaxUnits)}
        \cup {Expr(c) : c \in Chains}
        \cup EmptyOperandExprs
        \cup {SuffixChain(x, pre, xs) :
                 x \in BaseAtoms, pre \in BaseSuffixes, xs \in SuffixArgs}
        \cup {DirectMember("spider", "get", <<E1(Ident(u))>>, <<>>) : u \in IdentNames}
        \cup {DirectMember("spider", "get", <<E1(Ident(u)), E1(Ident(q))>>, <<>>) :
                 u \in IdentNames, q \in IdentNames}

OtherStmts ==
    {LetStmt("v", E1(Ident("a"))), LetStmt("v", EmptyExpr),
     FnDef("g", <<BreakStmt>>), FnDef("g", <<>>),
     IfElseStmt(E1(Ident("c")), <<BreakStmt>>, <<ExprStmt(E1(Ident("a")))>>),
     IfElseStmt(E1(Ident("c")), <<BreakStmt>>, <<ExprStmt(EmptyExpr)>>),
     IfStmt(EmptyExpr, <<BreakStmt>>),
     Statement(Node("other", "", <<>>))}

StmtInputs == {ExprStmt(e) : e \in ExprInputs} \cup NestedStmts \cup OtherStmts

\* programs of two statements
PairStmts == LeafStmts \cup OtherStmts \cup Nested(1)

Inputs ==
    {Parsed(Program(<<s>>)) : s \in StmtInputs}
        \cup {Parsed(Program(<<s, t>>)) : s \in PairStmts, t \in PairStmts}
        \cup {Parsed(Program(<<>>))}
        \cup {[ok |-> TRUE, pairs |-> <<>>, err |-> [line |-> 0, column |-> 0, message |-> ""]]}
        \cup {ParseFailure(l, c) : l \in 1..MaxPos, c \in 1..MaxPos}

(***************************************************************************)
(* The state machine: one call of an entry point on one input.             *)
(***************************************************************************)

NoResult == [ok |-> FALSE, output |-> "", err |-> NoError]

\* the transpiler call is not part of the run
CoreIdle ==
    /\ input = Parsed(Program(<<>>))
    /\ pc = "idle"
    /\ result = NoResult
    /\ text = ""

\* the editor server is not part of the run
LspIdle ==
    /\ documents = <<>>
    /\ handlers = <<>>
    /\ published = <<>>

\* the command line tool is not part of the run
CliIdle == cli = [pc |-> "idle"]

\* the leak tracker is not part of the run
LeakIdle ==
    /\ live = <<>>
    /\ allocs = 0
    /\ frees = 0
    /\ stderr = <<>>

Init ==
    /\ input \in Inputs
    /\ pc = "start"
    /\ result = NoResult
    /\ text = ""
    /\ LspIdle
    /\ CliIdle
    /\ LeakIdle

\* pub fn transpile_with_error
TranspileWithError ==
    /\ pc = "start"
    /\ result' = transpile_with_error(input)
    /\ pc' = "done"
    /\ UNCHANGED <<input, text, lsp_vars, cli, leak_vars>>

\* pub fn transpile
Transpile ==
    /\ pc = "start"
    /\ text' = transpile(input)
    /\ pc' = "text"
    /\ UNCHANGED <<input, result, lsp_vars, cli, leak_vars>>

Next == TranspileWithError \/ Transpile

Spec == Init /\ [][Next]_vars

TypeOK ==
    /\ pc \in {"idle", "start", "done", "text"}
    /\ result.ok \in BOOLEAN

(***************************************************************************)
(* The editor server (crates/zinc_lsp/src/main.rs).  A document's text is  *)
(* identified with what the parser makes of it.  A handler is cut at its   *)
(* await points: the insert under the write lock, the read under the read  *)
(* lock with the synchronous transpile, and the send to the client.        *)
(***************************************************************************)

\* did_open / did_change notifications the server handles in a run, each
\* by a handler of its own
MaxHandlers == 2

Uris == {"file:///a.zn", "file:///b.zn"}

\* document texts: a program, no statement at all, two syntax errors
DocTexts ==
    {P1(E1(Ident("a"))), Parsed(Program(<<>>)), ParseFailure(1, 1), ParseFailure(2, 3)}

\* String::new(): the text of a document the map does not hold
EmptyText == Parsed(Program(<<>>))

\* usize::saturating_sub(1)
saturating_sub_1(n) == IF n = 0 THEN 0 ELSE n - 1

\* the diagnostic list with an empty range at the start position
lsp_diagnostics_zero_width(r) ==
    IF r.ok THEN <<>>
    ELSE LET line == saturating_sub_1(r.err.line)
             column == saturating_sub_1(r.err.column)
         IN  <<[start |-> [line |-> line, character |-> column],
                end |-> [line |-> line, character |-> column],
                severity |-> "ERROR", source |-> "zinc", message |-> r.err.message]>>

\* the diagnostic list publish_diagnostics builds from the transpile result
lsp_diagnostics(r) ==
    IF r.ok THEN <<>>
    ELSE LET line == saturating_sub_1(r.err.line)
             column == saturating_sub_1(r.err.column)
         IN  <<[start |-> [line |-> line, character |-> column],
                end |-> [line |-> line, character |-> column + 1],
                severity |-> "ERROR", source |-> "zinc", message |-> r.err.message]>>

\* HashMap::insert
map_insert(map, key, value) ==
    [k \in DOMAIN map \cup {key} |-> IF k = key THEN value ELSE map[k]]

\* HashMap::get(..).cloned() with the None arm of publish_diagnostics
document_text(map, uri) == IF uri \in DOMAIN map THEN map[uri] ELSE EmptyText

IdleHandler == [pc |-> "idle", uri |-> "", from |-> EmptyText, diags |-> <<>>]

InitLsp ==
    /\ CoreIdle
    /\ documents = <<>>
    /\ handlers = [h \in 1..MaxHandlers |-> IdleHandler]
    /\ published = <<>>
    /\ CliIdle
    /\ LeakIdle

\* did_open up to the await of publish_diagnostics
DidOpen(h, uri, t) ==
    /\ handlers[h].pc = "idle"
    /\ documents' = map_insert(documents, uri, t)
    /\ handlers' = [handlers EXCEPT ![h] = [IdleHandler EXCEPT !.pc = "stored", !.uri = uri]]
    /\ UNCHANGED <<published, core_vars, cli, leak_vars>>

\* did_change up to the await of publish_diagnostics: the last content
\* change, if there is one, replaces the text
DidChange(h, uri, changes) ==
    /\ handlers[h].pc = "idle"
    /\ documents' = IF Len(changes) > 0
                    THEN map_insert(documents, uri, changes[Len(changes)])
                    ELSE documents
    /\ handlers' = [handlers EXCEPT ![h] = [IdleHandler EXCEPT !.pc = "stored", !.uri = uri]]
    /\ UNCHANGED <<published, core_vars, cli, leak_vars>>

\* publish_diagnostics up to the await of the send: reads the text under
\* the read lock and transpiles it
PublishDiagnosticsCompute(h) ==
    /\ handlers[h].pc = "stored"
    /\ LET t == document_text(documents, handlers[h].uri)
       IN  handlers' = [handlers EXCEPT ![h].pc = "computed",
                                        ![h].from = t,
                                        ![h].diags = lsp_diagnostics(transpile_with_error(t))]
    /\ UNCHANGED <<documents, published, core_vars, cli, leak_vars>>

\* client.publish_diagnostics(uri, diags, None); from is the text the list
\* was computed from
PublishDiagnosticsSend(h) ==
    /\ handlers[h].pc = "computed"
    /\ published' = map_insert(published, handlers[h].uri,
                               [diags |-> handlers[h].diags, from |-> handlers[h].from])
    /\ handlers' = [handlers EXCEPT ![h] = [IdleHandler EXCEPT !.pc = "done",
                                                               !.uri = handlers[h].uri]]
    /\ UNCHANGED <<documents, core_vars, cli, leak_vars>>

NextLsp ==
    \E h \in 1..MaxHandlers :
       \/ \E uri \in Uris, t \in DocTexts : DidOpen(h, uri, t)
       \/ \E uri \in Uris, changes \in SeqsUpTo(DocTexts, 2) : DidChange(h, uri, changes)
       \/ PublishDiagnosticsCompute(h)
       \/ PublishDiagnosticsSend(h)

SpecLsp == InitLsp /\ [][NextLsp]_vars

(***************************************************************************)
(* The command line tool (crates/zinc_cli/src/main.rs), one run of main.   *)
(* The file's content is identified with what the parser makes of it; the  *)
(* file system and the cargo child process answer nondeterministically.    *)
(***************************************************************************)

Commands == {"check", "eject", "run"}

\* a line written to stdout or stderr
Line(stream, kind, err) == [stream |-> stream, kind |-> kind, err |-> err]

\* process::exit(code) after writing line; falling off main is exit 0
cli_exit(c, code, lines) ==
    [c EXCEPT !.pc = "exited", !.exit_code = code, !.out = c.out \o lines]

\* the body of fn main the tool writes for eject and run
wrap_main(transpiled) ==
    "fn main() {\n" \o transpiled \o "\n zinc_std::check_leaks();\n}"

\* the Err arm of check: JSON on stdout in json mode, else the message on stderr
check_report(c, err) ==
    IF c.json_mode THEN Line("stdout", "json", err)
    ELSE Line("stderr", "Parse failed", err)

\* the match on the transpile result with the error defaulted to empty
\* output instead of ending the process
after_transpile_or_default(c, r, next_pc) ==
    [c EXCEPT !.transpiled = TRUE, !.result = r, !.pc = next_pc,
              !.wrapped = wrap_main(r.output)]

\* the match on the transpile result in eject and run: the Diagnostic is
\* reported and the process exits with 1, or the output is wrapped
after_transpile(c, r, next_pc) ==
    IF r.ok
    THEN [c EXCEPT !.transpiled = TRUE, !.result = r, !.pc = next_pc,
                   !.wrapped = wrap_main(r.output)]
    ELSE cli_exit([c EXCEPT !.transpiled = TRUE, !.result = r], 1,
                  <<Line("stderr", "Parse failed", r.err)>>)

InitCli ==
    /\ CoreIdle
    /\ LspIdle
    /\ LeakIdle
    /\ \E command \in Commands, json_mode \in BOOLEAN, content \in DocTexts :
          cli = [pc |-> "start", command |-> command, json_mode |-> json_mode,
                 content |-> content, transpiled |-> FALSE, result |-> NoResult,
                 wrapped |-> "", exit_code |-> 0, out |-> <<>>, files |-> {},
                 cargo_invoked |-> FALSE]

\* main up to the match on the command: the licence prompt, the arguments,
\* the .zn extension and reading the file each end the process with 1
CliPreamble(outcome) ==
    /\ cli.pc = "start"
    /\ cli' = IF outcome = "ok" THEN [cli EXCEPT !.pc = "command"]
              ELSE cli_exit(cli, 1, <<Line("stderr", outcome, NoError)>>)
    /\ UNCHANGED <<core_vars, lsp_vars, leak_vars>>

\* the "check" arm
CliCheck ==
    /\ cli.pc = "command"
    /\ cli.command = "check"
    /\ LET r == transpile_with_error(cli.content)
           c == [cli EXCEPT !.transpiled = TRUE, !.result = r]
       IN  cli' = IF r.ok THEN cli_exit(c, 0, <<Line("stdout", "OK", NoError)>>)
                  ELSE cli_exit(c, 1, <<check_report(c, r.err)>>)
    /\ UNCHANGED <<core_vars, lsp_vars, leak_vars>>

\* the "eject" arm up to fs::write
CliEjectTranspile ==
    /\ cli.pc = "command"
    /\ cli.command = "eject"
    /\ cli' = after_transpile(cli, transpile_with_error(cli.content), "eject_write")
    /\ UNCHANGED <<core_vars, lsp_vars, leak_vars>>

\* fs::write(<stem>.rs, wrapped) and the end of the "eject" arm
CliEjectWrite(written) ==
    /\ cli.pc = "eject_write"
    /\ cli' = IF written
              THEN cli_exit([cli EXCEPT !.files = cli.files \cup {"<stem>.rs"}], 0,
                            <<Line("stdout", "Ejected to .rs", NoError)>>)
              ELSE cli_exit(cli, 1, <<Line("stderr", "Failed to write", NoError)>>)
    /\ UNCHANGED <<core_vars, lsp_vars, leak_vars>>

\* the run arm up to fs::create_dir_all
CliRunTranspile ==
    /\ cli.pc = "command"
    /\ cli.command \notin {"check", "eject"}
    /\ cli' = after_transpile(cli, transpile_with_error(cli.content), "run_mkdir")
    /\ UNCHANGED <<core_vars, lsp_vars, leak_vars>>

\* fs::create_dir_all("crates/zinc_std/src/bin")
CliRunCreateDir(created) ==
    /\ cli.pc = "run_mkdir"
    /\ cli' = IF created THEN [cli EXCEPT !.pc = "run_write"]
              ELSE cli_exit(cli, 1, <<Line("stderr", "Failed to create bin dir", NoError)>>)
    /\ UNCHANGED <<core_vars, lsp_vars, leak_vars>>

\* fs::write(temp_path, wrapped)
CliRunWrite(written) ==
    /\ cli.pc = "run_write"
    /\ cli' = IF written
              THEN [cli EXCEPT !.pc = "run_cargo",
                               !.files = cli.files
                                           \cup {"crates/zinc_std/src/bin/temp_runner.rs"}]
              ELSE cli_exit(cli, 1, <<Line("stderr", "Failed to write", NoError)>>)
    /\ UNCHANGED <<core_vars, lsp_vars, leak_vars>>

\* Command::new("cargo")...status() and the match on it; check_leaks() of
\* the tool's own process finds LIVE_OBJECTS at 0 and prints nothing
CliRunCargo(status) ==
    /\ cli.pc = "run_cargo"
    /\ LET c == [cli EXCEPT !.cargo_invoked = TRUE]
       IN  cli' = CASE status = "success" -> cli_exit(c, 0, <<>>)
                    [] status = "failure" ->
                         cli_exit(c, 1, <<Line("stderr", "temp_runner exited with status",
                                               NoError)>>)
                    [] OTHER ->
                         cli_exit(c, 1, <<Line("stderr", "Failed to run cargo", NoError)>>)
    /\ UNCHANGED <<core_vars, lsp_vars, leak_vars>>

NextCli ==
    \/ \E outcome \in {"ok", "Aborted.", "Usage:", "Expected a .zn file", "Failed to read"} :
          CliPreamble(outcome)
    \/ CliCheck
    \/ CliEjectTranspile
    \/ \E written \in BOOLEAN : CliEjectWrite(written)
    \/ CliRunTranspile
    \/ \E created \in BOOLEAN : CliRunCreateDir(created)
    \/ \E written \in BOOLEAN : CliRunWrite(written)
    \/ \E status \in {"success", "failure", "error"} : CliRunCargo(status)

SpecCli == InitCli /\ [][NextCli]_vars

(***************************************************************************)
(* The runtime's leak tracker (crates/zinc_std/src/lib.rs).  LIVE_OBJECTS  *)
(* is an AtomicUsize: 64 bits, kept here as four 16-bit limbs, least       *)
(* significant first, so that its arithmetic wraps where the atomic's does.*)
(* allocs and frees count the completed calls.                             *)
(***************************************************************************)

MaxCalls == 4

LimbBase == 65536

LimbCount == 4

\* the usize of a small natural number
RECURSIVE to_limbs(_, _)
to_limbs(n, count) ==
    IF count = 0 THEN <<>>
    ELSE <<n % LimbBase>> \o to_limbs(n \div LimbBase, count - 1)

to_usize(n) == to_limbs(n, LimbCount)

\* AtomicUsize::fetch_add(1): the new value, wrapping at the width
RECURSIVE fetch_add_1(_)
fetch_add_1(v) ==
    IF v = <<>> THEN <<>>
    ELSE IF Head(v) = LimbBase - 1 THEN <<0>> \o fetch_add_1(Tail(v))
    ELSE <<Head(v) + 1>> \o Tail(v)

\* AtomicUsize::fetch_sub(1): the new value, wrapping at the width
RECURSIVE fetch_sub_1(_)
fetch_sub_1(v) ==
    IF v = <<>> THEN <<>>
    ELSE IF Head(v) = 0 THEN <<LimbBase - 1>> \o fetch_sub_1(Tail(v))
    ELSE <<Head(v) - 1>> \o Tail(v)

InitLeak ==
    /\ CoreIdle
    /\ LspIdle
    /\ CliIdle
    /\ live = to_usize(0)
    /\ allocs = 0
    /\ frees = 0
    /\ stderr = <<>>

TrackAlloc ==
    /\ allocs + frees < MaxCalls
    /\ live' = fetch_add_1(live)
    /\ allocs' = allocs + 1
    /\ UNCHANGED <<core_vars, lsp_vars, cli, frees, stderr>>

TrackFree ==
    /\ allocs + frees < MaxCalls
    /\ live' = fetch_sub_1(live)
    /\ frees' = frees + 1
    /\ UNCHANGED <<core_vars, lsp_vars, cli, allocs, stderr>>

\* leak(): track_alloc() and the message
Leak ==
    /\ allocs + frees < MaxCalls
    /\ Len(stderr) < MaxCalls
    /\ live' = fetch_add_1(live)
    /\ allocs' = allocs + 1
    /\ stderr' = Append(stderr, [msg |-> "Leaking an object...", count |-> to_usize(0)])
    /\ UNCHANGED <<core_vars, lsp_vars, cli, frees>>

\* check_leaks(): the report when the loaded count is above zero
CheckLeaks ==
    /\ Len(stderr) < MaxCalls
    /\ stderr' = IF live # to_usize(0)
                 THEN Append(stderr, [msg |-> "Memory Leak Detected", count |-> live])
                 ELSE stderr
    /\ UNCHANGED <<core_vars, lsp_vars, cli, live, allocs, frees>>

NextLeak ==
    \/ TrackAlloc
    \/ TrackFree
    \/ Leak
    \/ CheckLeaks

SpecLeak == InitLeak /\ [][NextLeak]_vars

(***************************************************************************)
(* Properties.                                                             *)
(***************************************************************************)

\* the program of the input has no statement child
NoStatements ==
    input.ok /\ \A i \in 1..Len(input.pairs) :
                   \A k \in 1..Len(input.pairs[i].children) :
                       input.pairs[i].children[k].rule # "statement"

\* C1: transpiling a |> f(b...) gives the same result as transpiling
\* f(a, b...), and a |> f the same as f(a), for every left-hand side a
\* (also one that lowers to empty text) and every name f (also print, leak).
C1_PipelineCallEqualsDirectCall ==
    pc = "done" =>
      /\ \A ac \in LhsChains, f \in CallNames, bs \in ArgLists :
            input = P1(PipeCall(ac, f, bs))
              => result = transpile_with_error(P1(DirectCall(f, <<Expr(ac)>> \o bs)))
      /\ \A ac \in LhsChains, f \in CallNames :
            input = P1(PipeIdent(ac, f))
              => result = transpile_with_error(P1(DirectCall(f, <<Expr(ac)>>)))

\* C2: transpiling value |> obj.method(x...) followed by further suffixes
\* gives the same result as transpiling obj.method(value, x...) followed by
\* the same suffixes, for every value, receiver, method and arguments.
C2_PipelineMemberEqualsDirectMember ==
    pc = "done" =>
      \A vc \in LhsChains, p \in MemberPairs, xs \in ArgLists, more \in MoreSuffixes :
         input = P1(PipeMember(vc, p[1], p[2], xs, more))
           => result = transpile_with_error(
                           P1(DirectMember(p[1], p[2], <<Expr(vc)>> \o xs, more)))

\* C3 as stated: a program with zero statements yields the Diagnostic
\* (0, 0, "No statements found", "Add at least one statement"), never Ok.
C3_EmptyProgramDiagnosticAsStated ==
    (pc = "done" /\ NoStatements)
      => result = Err(ZincError(0, 0, "No statements found",
                                "Add at least one statement"))

\* C3 amended: a program with zero statements yields the Diagnostic
\* (0, 0, "No statements found", "Add at least one statement."), the
\* suggestion ending in a full stop, and never Ok.
C3_EmptyProgramDiagnostic ==
    (pc = "done" /\ NoStatements)
      => /\ ~result.ok
         /\ result.output = ""
         /\ result.err.line = 0
         /\ result.err.column = 0
         /\ result.err.message = "No statements found"
         /\ result.err.suggestion = "Add at least one statement."

\* C3 witness: the program whose only child is the end-of-input token was
\* transpiled and the call returned an error.
C3_Witness ==
    /\ pc = "done"
    /\ input = Parsed(Program(<<>>))
    /\ ~result.ok

\* C4: the call fails exactly when the parser failed or the program has no
\* statement; every parsed program with a statement returns Ok, whatever
\* was dropped on the way.
C4_OnlyParserAndEmptyProgramFail ==
    pc = "done" => (result.ok <=> (input.ok /\ ~NoStatements))

\* C4 witness: a parsed program with a statement whose whole output was
\* dropped returned Ok with empty text.
C4_Witness ==
    /\ pc = "done"
    /\ input = P1(EmptyExpr)
    /\ result.ok
    /\ result.output = ""

\* the closing bracket of an opening one
Closer(open) ==
    CASE open = "(" -> ")"
      [] open = "[" -> "]"
      [] open = "{" -> "}"

RECURSIVE WellFormedFrom(_, _, _)
\* Scans target text s.  mode is "code", "raw" (inside r#"..."#) or "str"
\* (inside "..."); stack holds the closers of the brackets that are open.
\* TRUE iff brackets balance, every literal is closed at the end of the
\* text, and no argument slot is empty.
WellFormedFrom(s, mode, stack) ==
    IF Len(s) = 0 THEN mode = "code" /\ Len(stack) = 0
    ELSE CASE mode = "raw" ->
                IF starts_with(s, "\"#")
                THEN WellFormedFrom(SubSeq(s, 3, Len(s)), "code", stack)
                ELSE WellFormedFrom(Tail(s), "raw", stack)
           [] mode = "str" ->
                WellFormedFrom(Tail(s), IF Head(s) = "\"" THEN "code" ELSE "str", stack)
           [] OTHER ->
                IF starts_with(s, "r#\"")
                THEN WellFormedFrom(SubSeq(s, 4, Len(s)), "raw", stack)
                ELSE IF Head(s) = "\"" THEN WellFormedFrom(Tail(s), "str", stack)
                ELSE IF starts_with(s, "(,") \/ starts_with(s, ", )")
                          \/ starts_with(s, ", ,")
                     THEN FALSE
                ELSE IF Head(s) \in {"(", "[", "{"}
                     THEN WellFormedFrom(Tail(s), "code", Closer(Head(s)) \o stack)
                ELSE IF Head(s) \in {")", "]", "}"}
                     THEN /\ Len(stack) > 0
                          /\ Head(stack) = Head(s)
                          /\ WellFormedFrom(Tail(s), "code", Tail(stack))
                ELSE WellFormedFrom(Tail(s), "code", stack)

WellFormed(s) == WellFormedFrom(s, "code", "")

\* C5: for every accepted input the emitted text is well formed: brackets
\* balance, raw string literals end at the emitter's own terminator, and no
\* call has an empty argument slot.
C5_EmittedTextIsWellFormed ==
    (pc = "done" /\ result.ok) => WellFormed(result.output)

RECURSIVE reescape(_)
\* the inverse of the unescape step: backslash and quote get a backslash
reescape(s) ==
    IF Len(s) = 0 THEN ""
    ELSE (IF Head(s) \in {"\\", "\""} THEN "\\" \o Head(s) ELSE Head(s))
             \o reescape(Tail(s))

\* the inverse of the raw wrap: strips r#" and "# from a lowered literal
unwrap_raw(lowered) == SubSeq(lowered, 4, Len(lowered) - 2)

\* C6: lowering a string literal with content c and then reversing the raw
\* wrap and the unescape step gives back c, for every content c.
C6_StringRoundTrip ==
    pc = "done" =>
      \A c \in Contents(MaxUnits) :
         input = P1(E1(Str(c)))
           => /\ result.ok
              /\ reescape(unwrap_raw(SubSeq(result.output, 1, Len(result.output) - 1))) = c

\* C7: db.query(...) lowers to zinc_std::db::query(a, b) only when exactly
\* two arguments are supplied; with any other number of supplied arguments
\* the call lowers to empty text and the result is still Ok.
C7_DbQueryLowersOnlyWithTwoSuppliedArgs ==
    pc = "done" =>
      \A xs \in SeqsUpTo(ArgExprs, MaxArgs + 1) :
         input = P1(DirectMember("db", "query", xs, <<>>))
           => /\ result.ok
              /\ (Len(xs) # 2 => result.output = "")

\* C8: for identifiers url and profile, the statement spider.get(url)
\* lowers to zinc_std::spider::get(url, None); and spider.get(url, profile)
\* to zinc_std::spider::get(url, Some(profile)); through both entry points.
C8_SpiderGet ==
    LET out == IF pc = "done" THEN result.output ELSE text
    IN  (pc \in {"done", "text"}) =>
          \A u \in IdentNames :
             /\ input = P1(DirectMember("spider", "get", <<E1(Ident(u))>>, <<>>))
                  => out = "zinc_std::spider::get(" \o u \o ", None);"
             /\ \A q \in IdentNames :
                   input = P1(DirectMember("spider", "get",
                                           <<E1(Ident(u)), E1(Ident(q))>>, <<>>))
                     => out = "zinc_std::spider::get(" \o u \o ", Some(" \o q \o "));"

\* C8 witness: transpile returned the profile form for spider.get(url, profile).
C8_Witness ==
    /\ pc = "text"
    /\ input = P1(DirectMember("spider", "get",
                               <<E1(Ident("url")), E1(Ident("profile"))>>, <<>>))
    /\ text = "zinc_std::spider::get(url, Some(profile));"

\* C9: transpile of the statement print("x") is exactly
\* println!("{}", "x");
C9_PrintStringLiteral ==
    (pc = "text" /\ input = P1(DirectCall("print", <<E1(Str("x"))>>)))
      => text = "println!(\"{}\", \"x\");"

RECURSIVE OutlineFrom(_, _, _, _, _)
\* Reads emitted statement text s into its outline: the sequence of
\* <<text, depth>> of every block header ("loop {", "if c {") and every
\* statement ending in ";", depth being the number of braces open around
\* it.  acc is the text read since the last item, prev the last character.
\* The outline is <<"unbalanced">> when a brace closes nothing, is left
\* open, or text is left over before a closing brace.
OutlineFrom(s, depth, acc, prev, items) ==
    IF Len(s) = 0
    THEN IF depth = 0 /\ acc = "" THEN items ELSE <<"unbalanced">>
    ELSE LET ch == Head(s)
         IN  CASE ch = "{" -> OutlineFrom(Tail(s), depth + 1, acc \o ch, ch, items)
               [] ch = "\n" /\ prev = "{" ->
                    OutlineFrom(Tail(s), depth, "", ch, Append(items, <<acc, depth - 1>>))
               [] ch = "}" ->
                    IF depth = 0 \/ acc # "" THEN <<"unbalanced">>
                    ELSE OutlineFrom(Tail(s), depth - 1, "", ch, items)
               [] ch = ";" ->
                    OutlineFrom(Tail(s), depth, "", ch, Append(items, <<acc \o ch, depth>>))
               [] OTHER -> OutlineFrom(Tail(s), depth, acc \o ch, ch, items)

Outline(s) == OutlineFrom(s, 0, "", "", <<>>)

RECURSIVE SourceOutline(_, _)
RECURSIVE SourceOutlineOfAll(_, _)
\* The outline the source prescribes for a statement nested depth deep: its
\* own text for a statement without a block, and for if / loop the header
\* followed by the outlines of the body's statements one level deeper, in
\* source order; nothing for a statement whose body comes out empty.
SourceOutline(stmt, depth) ==
    LET kind == stmt.children[1]
    IN  CASE kind.rule = "loop_stmt" ->
               LET body == SourceOutlineOfAll(kind.children[1].children, depth + 1)
               IN  IF body = <<>> THEN <<>> ELSE <<<<"loop {", depth>>>> \o body
          [] kind.rule = "if_stmt" ->
               LET body == SourceOutlineOfAll(kind.children[2].children, depth + 1)
               IN  IF body = <<>> THEN <<>>
                   ELSE <<<<"if " \o transpile_expr(kind.children[1]) \o " {", depth>>>>
                            \o body
          [] OTHER ->
               LET t == transpile_statement(stmt)
               IN  IF t = "" THEN <<>> ELSE <<<<t, depth>>>>

SourceOutlineOfAll(stmts, depth) ==
    IF Len(stmts) = 0 THEN <<>>
    ELSE SourceOutline(Head(stmts), depth) \o SourceOutlineOfAll(Tail(stmts), depth)

RECURSIVE ConcatOutputs(_)
\* the outputs of the statements of a block, one after the other
ConcatOutputs(stmts) ==
    IF Len(stmts) = 0 THEN ""
    ELSE transpile_with_error(Parsed(Program(<<Head(stmts)>>))).output
             \o ConcatOutputs(Tail(stmts))

\* C10: for if / loop statements nested up to MaxDepth deep, every header and
\* every inner statement appears in the output in source order, inside
\* exactly the braces of the statements that enclose it in the source, the
\* braces balance, and the text between the braces of a loop is the
\* concatenation of the outputs of its body's statements with no separator.
C10_NestedBlocksLowerInOrder ==
    (pc = "done" /\ input.ok /\ Len(input.pairs) = 1
       /\ Len(input.pairs[1].children) = 2
       /\ input.pairs[1].children[1] \in NestedStmts)
      => LET stmt == input.pairs[1].children[1]
             kind == stmt.children[1]
         IN  /\ result.ok
             /\ Outline(result.output) = SourceOutline(stmt, 0)
             /\ kind.rule = "loop_stmt"
                  => LET body == ConcatOutputs(kind.children[1].children)
                     IN  result.output =
                           IF body = "" THEN "" ELSE "loop {\n" \o body \o "}"

\* C10 witness: loop { if c { a  loop { break } }  break } was lowered to
\* three levels of nested braces.
C10_Witness ==
    /\ pc = "done"
    /\ input = Parsed(Program(<<
           LoopStmt(<<IfStmt(E1(Ident("c")),
                             <<ExprStmt(E1(Ident("a"))), LoopStmt(<<BreakStmt>>)>>),
                      BreakStmt>>)>>))
    /\ result.output = "loop {\nif c {\na;loop {\nbreak;}}break;}"

\* the argument counts each recognized (receiver, method) pair expects:
\* the arities of the runtime functions the pair is spelled as
ExpectedArgCounts(p) ==
    CASE p \in {<<"fs", "read">>, <<"json", "parse">>, <<"json", "to_string">>,
                <<"py", "eval">>} -> {1}
      [] p \in {<<"db", "query">>, <<"fs", "write">>, <<"html", "select">>,
                <<"json", "get">>, <<"json", "at">>} -> {2}
      [] p = <<"spider", "get">> -> {1, 2}
      [] p = <<"spider", "get_proxy">> -> {3}

RecognizedPairs == MemberPairs \ {<<"o", "m">>}

\* C13: for every recognized (receiver, method) pair, a call whose number of
\* arguments differs from the pair's expected count lowers to empty text
\* (arguments that all lower to non-empty text).
C13_ArityMismatchLowersToEmpty ==
    pc = "done" =>
      \A p \in RecognizedPairs :
         \A xs \in SeqsUpTo({E1(Ident("b")), E1(Str("x"))}, MaxArgs + 1) :
            (input = P1(DirectMember(p[1], p[2], xs, <<>>))
               /\ Len(xs) \notin ExpectedArgCounts(p))
              => result.output = ""

\* C14: an expression with a sub-expression that lowers to empty text (an
\* operand of + or of a comparison, a pipeline left-hand side, a call
\* argument) lowers to empty text, so its statement is dropped.
C14_EmptyTextPropagatesUpward ==
    pc = "done" =>
      \A e \in EmptyOperandExprs : input = P1(e) => result.output = ""

\* the text of an operand of the chains: its identifier or number
OperandText(term) == term.children[1].children[1].str

\* one step of the left fold as C15 states it
Combine(op, acc, term) ==
    LET x == term.children[1].children[1]
    IN  CASE op = "+" -> "format!(\"{}{}\", " \o acc \o ", " \o OperandText(term) \o ")"
          [] op = "|>" ->
               IF x.rule = "identifier" THEN x.str \o "(" \o acc \o ")"
               ELSE x.children[1].str \o "(" \o acc \o ", b)"
          [] OTHER -> "(" \o acc \o " " \o op \o " " \o OperandText(term) \o ")"

RECURSIVE LeftFold(_, _)
\* the fold over the flat child list, from the left, one operator at a time
LeftFold(acc, rest) ==
    IF Len(rest) = 0 THEN acc
    ELSE LeftFold(Combine(rest[1].str, acc, rest[2]), SubSeq(rest, 3, Len(rest)))

\* C15: a binary chain t0 op1 t1 ... opn tn lowers as the strict left fold:
\* it starts as lower(t0) and step k replaces the accumulated text by
\* combine(opk, accumulated, tk); no operator binds tighter than another.
C15_BinaryChainIsLeftFold ==
    pc = "done" =>
      \A c \in Chains :
         input = P1(Expr(c))
           => result.output = LeftFold(OperandText(c[1]), Tail(c)) \o ";"

\* C15 witness: a + b == 1 was lowered as (a + b) == 1.
C15_Witness ==
    /\ pc = "done"
    /\ input = P1(Expr(<<Term(Ident("a"), <<>>), Op("+"), Term(Ident("b"), <<>>),
                        Op("=="), Term(Num("1"), <<>>)>>))
    /\ result.output = "(format!(\"{}{}\", a, b) == 1);"

\* the token [A-Za-z_][A-Za-z0-9_]*
IsIdentifierToken(t) ==
    /\ t # ""
    /\ Head(t) \notin AsciiDigit
    /\ \A k \in 1..Len(t) : CharAt(t, k) \in AsciiAlpha \cup AsciiDigit \cup {"_"}

\* what the rewrite table gives for .query(args) on receiver obj: the
\* db.query entry with its arity check, the literal call for other receivers
QueryThroughTable(obj, args) ==
    IF obj = "db"
    THEN IF Len(args) = 2
         THEN "zinc_std::db::query(" \o args[1] \o ", " \o args[2] \o ")"
         ELSE ""
    ELSE obj \o ".query(" \o join(args, ", ") \o ")"

\* C16: a member suffix .query(args) goes through the rewrite table iff the
\* text accumulated before it is one identifier token; after a call, an
\* index, a literal or an earlier suffix it is emitted as the literal call
\* current.query(args).
C16_MemberSuffixRewriteIffIdentifier ==
    pc = "done" =>
      \A x \in BaseAtoms, pre \in BaseSuffixes, xs \in SuffixArgs :
         input = P1(SuffixChain(x, pre, xs))
           => LET current == transpile_term(Term(x, pre))
                  args == [k \in 1..Len(xs) |-> OperandText(xs[k].children[1])]
                  out == IF IsIdentifierToken(current)
                         THEN QueryThroughTable(current, args)
                         ELSE current \o ".query(" \o join(args, ", ") \o ")"
              IN  result.output = IF out = "" THEN "" ELSE out \o ";"

\* C16 witness: db[0].query(a, b) was emitted as the literal method call.
C16_Witness ==
    /\ pc = "done"
    /\ input = P1(SuffixChain(Ident("db"), <<Index(E1(Num("0")))>>,
                              <<E1(Ident("a")), E1(Ident("b"))>>))
    /\ result.output = "db[0 as usize].query(a, b);"

\* C11 as stated: what is published for a document is the empty list when
\* the transpile of the text succeeded, and otherwise exactly one diagnostic
\* from (line - 1, column - 1) to one character later on the same line.
C11_PublishedRangeAsStated ==
    \A u \in DOMAIN published :
       LET r == transpile_with_error(published[u].from)
           d == published[u].diags
       IN  IF r.ok THEN d = <<>>
           ELSE /\ Len(d) = 1
                /\ d[1].start = [line |-> r.err.line - 1, character |-> r.err.column - 1]
                /\ d[1].end = [line |-> r.err.line - 1, character |-> r.err.column]

\* the predecessor of n, and 0 for 0
PredOrZero(n) == IF n >= 1 THEN n - 1 ELSE 0

\* C11 amended: every handler that finished has published for its document,
\* and what is published is the empty list when the transpile succeeded, and
\* otherwise exactly one diagnostic that starts at (line - 1, column - 1)
\* with each coordinate held at 0 when the Diagnostic's is 0 (the
\* empty-program Diagnostic at (0, 0) is published at (0, 0)) and ends one
\* character later on the same line.
C11_PublishedRange ==
    /\ \A h \in DOMAIN handlers :
          handlers[h].pc = "done" => handlers[h].uri \in DOMAIN published
    /\ \A u \in DOMAIN published :
          LET r == transpile_with_error(published[u].from)
              d == published[u].diags
          IN  IF r.ok THEN d = <<>>
              ELSE /\ Len(d) = 1
                   /\ d[1].start.line = PredOrZero(r.err.line)
                   /\ d[1].start.character = PredOrZero(r.err.column)
                   /\ d[1].end.line = d[1].start.line
                   /\ d[1].end.character = d[1].start.character + 1
                   /\ d[1].message = r.err.message

\* C11 witness: the empty-program Diagnostic at (0, 0) was published as the
\* range (0, 0)-(0, 1).
C11_Witness ==
    \E u \in DOMAIN published :
       /\ published[u].from = Parsed(Program(<<>>))
       /\ Len(published[u].diags) = 1
       /\ published[u].diags[1].start = [line |-> 0, character |-> 0]
       /\ published[u].diags[1].end = [line |-> 0, character |-> 1]

\* C17: once no handler is under way, the diagnostics last published for
\* a document are the ones of the text the document map holds for it.
C17_LastPublishedMatchesStoredText ==
    (\A h \in DOMAIN handlers : handlers[h].pc \in {"idle", "done"})
      => \A u \in DOMAIN published :
            published[u].diags
              = lsp_diagnostics(transpile_with_error(document_text(documents, u)))

\* C12: when the transpiler returned a Diagnostic in check, eject or run, the
\* process has reported it and exited with a non-zero status, no file was
\* written and cargo was not invoked; a file is written and cargo invoked
\* only after a transpile that succeeded.
C12_DiagnosticStopsTheRun ==
    cli.pc # "idle" =>
      /\ (cli.transpiled /\ ~cli.result.ok)
           => /\ cli.pc = "exited"
              /\ cli.exit_code # 0
              /\ \E k \in 1..Len(cli.out) :
                    /\ cli.out[k].kind \in {"Parse failed", "json"}
                    /\ cli.out[k].err = transpile_with_error(cli.content).err
              /\ cli.files = {}
              /\ ~cli.cargo_invoked
      /\ (cli.files # {} \/ cli.cargo_invoked)
           => /\ cli.transpiled
              /\ transpile_with_error(cli.content).ok

\* C12 witness: run on a file with a syntax error exited with 1 after the
\* transpile, with nothing written and cargo not invoked.
C12_Witness ==
    /\ cli.pc = "exited"
    /\ cli.command = "run"
    /\ cli.transpiled
    /\ cli.content = ParseFailure(2, 3)
    /\ cli.exit_code = 1
    /\ cli.files = {}
    /\ ~cli.cargo_invoked

\* a step in which check_leaks wrote its report
ReportsLeak ==
    /\ Len(stderr') = Len(stderr) + 1
    /\ stderr'[Len(stderr')].msg = "Memory Leak Detected"

\* C18: LIVE_OBJECTS is always the number of completed track_alloc and leak
\* calls minus the number of completed track_free calls, which is never
\* below zero, and check_leaks reports a leak only when more allocations
\* than frees have been tracked.
C18_LiveObjectsIsAllocsMinusFrees ==
    /\ [](/\ allocs >= frees
          /\ live = to_usize(allocs - frees))
    /\ [][ReportsLeak => allocs > frees]_vars

====
